---- MODULE Spec2Model ----
(***************************************************************************)
(* A model of pipremove_v2.py: the dependency resolver                     *)
(* (PackageDependencyUninstalltionResolver) and the command-line loop      *)
(* (PipRemoveCLI.main / _main / _remove_packages) that drives it.          *)
(*                                                                         *)
(* The installed-package index (distributions_as_dict) is a snapshot that  *)
(* is built once per process and never refreshed, so it is chosen in Init  *)
(* and left unchanged by every action.                                     *)
(***************************************************************************)
EXTENDS Integers, Sequences, FiniteSets, TLC

VARIABLES
    dists,      \* __dists: installed name -> declared requirement names
    args,       \* the PACKAGE arguments of the command line
    argi,       \* position of main's `for t in args` loop
    pc,         \* where the process is
    data,       \* the current resolver's DependencyData
    todo,       \* what is left of `for t in to_removed`
    rv,         \* the value analyze_recursively returned for the current target
    executed,   \* the name sets handed to `pip uninstall`, in order, each
                \* with the position of its target in args
    results,    \* what analyze_recursively returned, in order, each with
                \* the position of its target in args
    error       \* the exception that ended the process, if any

vars == <<dists, args, argi, pc, data, todo, rv, executed, results, error>>

----------------------------------------------------------------------------
(* Bounds of the model *)

\* the most requirements one installed package declares
MaxDeps == 2

\* the most PACKAGE arguments of one invocation
MaxTargets == 2

----------------------------------------------------------------------------
(* The names of the model *)

\* The members of WHITELIST that take part in the model.
WHITELIST == {"pip"}

\* The installed distributions, by their metadata name (d.name).
Installed == {"a", "b", "c", "pip"}

\* Every name a requirement or a command-line argument may spell:
\* the installed names, "B" and "Pip" (other spellings of "b" and "pip", as
\* a requirement such as `Requires-Dist: Pip` gives them), and "x", which is
\* not installed.
Names == Installed \cup {"B", "Pip", "x"}

NotFound == "<not found>"

NoTarget == "<none>"

\* importlib_metadata.distribution(name).name: the lookup by normalised
\* (case-folded) name that get_distribution falls back to when `name` is
\* no key of the snapshot.
DistributionName(name) ==
    IF name \in Installed THEN name
    ELSE IF name = "B" THEN "b"
    ELSE IF name = "Pip" THEN "pip"
    ELSE NotFound

\* get_distribution(name).name, or NotFound where it raises
\* PackageNotFoundError.  The alias cache __alias_to_names only memoises
\* DistributionName and has no effect on the value.
get_distribution(name) ==
    IF name \in DOMAIN dists THEN name ELSE DistributionName(name)

does_pkg_exists(pkg) == get_distribution(pkg) # NotFound

----------------------------------------------------------------------------
(* DependencyData *)

EmptyMap == [k \in {} |-> {}]

DependencyData(target) ==
    [ target                          |-> target,
      whitelisted                     |-> {},
      safe_to_removed                 |-> EmptyMap,
      package_depenencies_required_by |-> EmptyMap,
      this_requires_by                |-> {},
      never_installed                 |-> {},
      analyzed_packages               |-> {} ]

\* dict.get(key, default)
Get(map, key, default) == IF key \in DOMAIN map THEN map[key] ELSE default

\* map with map[key] = value, the other keys kept
Put(map, key, value) ==
    [k \in DOMAIN map \cup {key} |-> IF k = key THEN value ELSE map[k]]

----------------------------------------------------------------------------
(* _analyze_package_dependencies *)

\* package_to_requirements: the requirement names of every installed package
package_to_requirements == dists

\* a variant of Skipped that forgets `package in WHITELIST`
SkippedWhenAnalyzed(dd, package) == package \in dd.analyzed_packages

\* the early return of lines 217-220
Skipped(dd, package) ==
    package \in WHITELIST \/ package \in dd.analyzed_packages

\* lines 232-239: the key under which `package` is analyzed
ResolvedName(package) ==
    IF package \in DOMAIN package_to_requirements THEN package
    ELSE get_distribution(package)

\* lines 247-254: the three-way split of the requirements
NeverInstalled(requirements) ==
    {entry \in requirements : ~does_pkg_exists(entry)}

Whitelisted(requirements) ==
    {entry \in requirements : does_pkg_exists(entry) /\ entry \in WHITELIST}

vaild_requirements(requirements) ==
    {entry \in requirements : does_pkg_exists(entry) /\ entry \notin WHITELIST}

\* lines 259-266: the packages that declare `package`
ThisRequiresBy(package) ==
    {package_to_check \in DOMAIN package_to_requirements :
        /\ package \in package_to_requirements[package_to_check]
        /\ package_to_check # package
        /\ package_to_check \notin WHITELIST}

\* lines 268-281: the packages recorded as requiring `depenency`
RequiredBy(package, vaild, target, depenency) ==
    {package_to_check \in DOMAIN package_to_requirements :
        /\ depenency \in package_to_requirements[package_to_check]
        /\ package_to_check # package
        /\ package_to_check \notin vaild
        /\ package_to_check \notin WHITELIST
        /\ package_to_check # target}

\* lines 245, 268-281: package_depenencies_required_by[package] after the
\* scan; setdefault keeps what an earlier analysis of the same key recorded
RequiredByMap(old, package, vaild, target) ==
    LET hit == {d \in vaild : RequiredBy(package, vaild, target, d) # {}}
    IN  [d \in DOMAIN old \cup hit |->
            Get(old, d, {}) \cup
            (IF d \in hit THEN RequiredBy(package, vaild, target, d) ELSE {})]

\* a variant of SafeToRemoved that forgets the filter of lines 285-286
SafeAllValid(vaild, required_by) == vaild

\* lines 283-287
SafeToRemoved(vaild, required_by) ==
    {d \in vaild : d \notin DOMAIN required_by}

\* the whole of _analyze_package_dependencies(package_arg) on dd
Analyze(dd, package_arg) ==
    IF Skipped(dd, package_arg) THEN dd
    ELSE
      LET package      == ResolvedName(package_arg)
          requirements == package_to_requirements[package]
          vaild        == vaild_requirements(requirements)
          required_by  ==
              RequiredByMap(Get(dd.package_depenencies_required_by, package, EmptyMap),
                            package, vaild, dd.target)
      IN  [ target      |-> dd.target,
            whitelisted |->
                dd.whitelisted \cup
                {<<package, e>> : e \in Whitelisted(requirements)},
            safe_to_removed |->
                Put(dd.safe_to_removed, package, SafeToRemoved(vaild, required_by)),
            package_depenencies_required_by |->
                Put(dd.package_depenencies_required_by, package, required_by),
            this_requires_by |->
                dd.this_requires_by \cup
                (IF package = dd.target THEN ThisRequiresBy(package) ELSE {}),
            never_installed |->
                dd.never_installed \cup
                {<<package, e>> : e \in NeverInstalled(requirements)},
            analyzed_packages |-> dd.analyzed_packages \cup {package} ]

----------------------------------------------------------------------------
(* analyze_recursively *)

\* a variant of ToRemoved that looks the target up under its resolved name
ToRemovedResolved(dd) ==
    Get(dd.safe_to_removed, ResolvedName(dd.target), {})

\* line 298: safe_to_removed.get(target, set())
ToRemoved(dd) == Get(dd.safe_to_removed, dd.target, {})

\* the packages whose safe_to_removed value holds i
Holders(dd, i) ==
    {mdep \in DOMAIN dd.safe_to_removed : i \in dd.safe_to_removed[mdep]}

\* every name in a safe_to_removed value
AllSafe(dd) == UNION {dd.safe_to_removed[m] : m \in DOMAIN dd.safe_to_removed}

\* lines 307-314: set.remove(i) is run once per holder of i, and raises
\* KeyError the second time
Raises(dd, i) == Cardinality(Holders(dd, i)) >= 2

\* lines 307-314, when no remove raises
Corrected(dd) == {i \in dd.this_requires_by : Holders(dd, i) = {}}

----------------------------------------------------------------------------
(* PipRemoveCLI *)

\* lines 382-385: the names handed to `pip uninstall`
Uninstalled(dd) == AllSafe(dd) \cup {dd.target}

\* the record of a return of analyze_recursively
Returned(value) == [at |-> argi, target |-> data.target, rv |-> value]

\* _main has returned: main's loop takes the next argument, or main returns 0
NextTarget ==
    /\ argi' = argi + 1
    /\ pc' = IF argi + 1 > Len(args) THEN "exit" ELSE "construct"

\* line 420, PackageDependencyUninstalltionResolver.__init__ (lines 205-208):
\* ValueError is raised for a target that does not exist and nothing in main
\* catches it
Construct ==
    /\ pc = "construct"
    /\ IF does_pkg_exists(args[argi])
       THEN /\ data' = DependencyData(args[argi])
            /\ rv' = "none"
            /\ pc' = "analyze_target"
            /\ UNCHANGED error
       ELSE /\ pc' = "raised"
            /\ error' = "ValueError"
            /\ UNCHANGED <<data, rv>>
    /\ UNCHANGED <<dists, args, argi, todo, executed, results>>

\* lines 296-302 (and 394-396 when False is returned)
AnalyzeTarget ==
    /\ pc = "analyze_target"
    /\ LET dd == Analyze(data, data.target)
       IN  /\ data' = dd
           /\ IF ToRemoved(dd) = {}
              THEN /\ rv' = "False"
                   /\ results' = Append(results, Returned(FALSE))
                   /\ todo' = {}
                   /\ NextTarget
              ELSE /\ todo' = ToRemoved(dd)
                   /\ pc' = "analyze_deps"
                   /\ UNCHANGED <<rv, results, argi>>
    /\ UNCHANGED <<dists, args, executed, error>>

\* a variant of AnalyzeDependency that goes on into what t leaves removable
AnalyzeDependencyRecursive ==
    /\ pc = "analyze_deps"
    /\ \E t \in todo :
          LET dd   == Analyze(data, t)
              more == {n \in Get(dd.safe_to_removed, ResolvedName(t), {}) :
                          ResolvedName(n) \notin dd.analyzed_packages}
          IN  /\ data' = dd
              /\ todo' = (todo \ {t}) \cup more
              /\ pc' = IF todo' = {} THEN "corrective" ELSE "analyze_deps"
    /\ UNCHANGED <<dists, args, argi, rv, executed, results, error>>

\* lines 304-305: one turn of `for t in to_removed`, in any order
AnalyzeDependency ==
    /\ pc = "analyze_deps"
    /\ \E t \in todo :
          /\ data' = Analyze(data, t)
          /\ todo' = todo \ {t}
          /\ pc' = IF todo = {t} THEN "corrective" ELSE "analyze_deps"
    /\ UNCHANGED <<dists, args, argi, rv, executed, results, error>>

\* lines 307-315, every remove succeeding: True is returned
CorrectivePass ==
    /\ pc = "corrective"
    /\ \A i \in data.this_requires_by : ~Raises(data, i)
    /\ data' = [data EXCEPT !.this_requires_by = Corrected(data)]
    /\ rv' = "True"
    /\ results' = Append(results, Returned(TRUE))
    /\ pc' = "confirm"
    /\ UNCHANGED <<dists, args, argi, todo, executed, error>>

\* lines 307-314, a second remove of the same i: KeyError ends the process.
\* The copy is walked in any order, so any of the members that do not raise
\* may have been handled before i was.
CorrectivePassRaises ==
    /\ pc = "corrective"
    /\ \E i \in data.this_requires_by :
          /\ Raises(data, i)
          /\ \E before \in SUBSET {j \in data.this_requires_by : ~Raises(data, j)} :
                data' = [data EXCEPT !.this_requires_by =
                            (@ \ {i}) \ {j \in before : Holders(data, j) # {}}]
    /\ pc' = "raised"
    /\ error' = "KeyError"
    /\ UNCHANGED <<dists, args, argi, todo, rv, executed, results>>

\* lines 397-404 with the answer yes (--yes, --quiet or the prompt), then
\* _remove_packages (lines 379-391)
RemovePackages ==
    /\ pc = "confirm"
    /\ executed' = Append(executed, [at |-> argi, names |-> Uninstalled(data)])
    /\ NextTarget
    /\ UNCHANGED <<dists, args, data, todo, rv, results, error>>

\* lines 397-404 with the answer no
Decline ==
    /\ pc = "confirm"
    /\ NextTarget
    /\ UNCHANGED <<dists, args, data, todo, rv, executed, results, error>>

Next ==
    \/ Construct
    \/ AnalyzeTarget
    \/ AnalyzeDependency
    \/ CorrectivePass
    \/ CorrectivePassRaises
    \/ RemovePackages
    \/ Decline

----------------------------------------------------------------------------
(* The inputs *)

DepSets(n) == {S \in SUBSET Names : Cardinality(S) <= n}

\* The requirements of the packages that are not protected: any names, at
\* most MaxDeps each.
OpenIndexes == [Installed \ WHITELIST -> DepSets(MaxDeps)]

\* The requirements of the protected packages: none, or "b".
ProtectedIndexes == [Installed \cap WHITELIST -> {{}, {"b"}}]

\* The protected packages declaring nothing.
BareProtected == [p \in Installed \cap WHITELIST |-> {}]

\* The targets: "a" (by the symmetry of "a" and "c", it stands for "c" too),
\* "b", which has a second spelling, the protected "pip", its second
\* spelling "Pip", and "x", which is not installed.
Targets == {"a", "b", "pip", "Pip", "x"}

\* The targets of the runs with several targets.
MultiTargets == {"a", "b", "x"}

ArgLists == UNION {[1..n -> MultiTargets] : n \in 1..MaxTargets}

InitWith(index, arguments) ==
    /\ dists = index
    /\ args = arguments
    /\ argi = 1
    /\ pc = "construct"
    /\ data = DependencyData(NoTarget)
    /\ todo = {}
    /\ rv = "none"
    /\ executed = <<>>
    /\ results = <<>>
    /\ error = "none"

\* one target, any snapshot
Init ==
    \E f \in OpenIndexes, g \in ProtectedIndexes, t \in Targets :
        InitWith(f @@ g, <<t>>)

Spec == Init /\ [][Next]_vars

\* several targets in a row
InitMulti ==
    \E f \in OpenIndexes, a \in ArgLists : InitWith(f @@ BareProtected, a)

SpecMulti == InitMulti /\ [][Next]_vars

----------------------------------------------------------------------------
(* The properties *)

\* the classes that hold requirement d of the analyzed package p
Classes(p, d) ==
    (IF <<p, d>> \in data.whitelisted THEN {"whitelisted"} ELSE {}) \cup
    (IF <<p, d>> \in data.never_installed THEN {"never_installed"} ELSE {}) \cup
    (IF d \in Get(data.safe_to_removed, p, {}) THEN {"safe_to_removed"} ELSE {}) \cup
    (IF d \in DOMAIN Get(data.package_depenencies_required_by, p, EmptyMap)
        THEN {"required_by"} ELSE {})

\* C1: every requirement of an analyzed package that is not protected is in
\* exactly one of the four classes kept for that package: whitelisted,
\* never installed, safe to remove, or required by another package.
C1_PartitionComplete ==
    \A p \in data.analyzed_packages \ WHITELIST :
        /\ p \in DOMAIN data.safe_to_removed
        /\ p \in DOMAIN data.package_depenencies_required_by
        /\ \A d \in dists[p] : Cardinality(Classes(p, d)) = 1

\* the analysis has run through its second level with every class in use
C1_Witness ==
    /\ pc = "confirm"
    /\ \A p \in data.analyzed_packages : p \notin dists[p]
    /\ data.whitelisted # {}
    /\ data.never_installed # {}
    /\ \E p \in data.analyzed_packages \ WHITELIST :
          data.safe_to_removed[p] # {}
    /\ \E p \in data.analyzed_packages \ WHITELIST :
          DOMAIN data.package_depenencies_required_by[p] # {}

\* C2: for an analyzed package p and a requirement d of p that is installed
\* and not protected, every installed q that declares d, other than p, the
\* protected packages and the target, is recorded as requiring d, and d is
\* not safe to remove; also when q is itself a requirement of p.
C2_RequiredElsewhere ==
    \A p \in data.analyzed_packages :
      \A d \in dists[p] :
        (does_pkg_exists(d) /\ d \notin WHITELIST) =>
          \A q \in DOMAIN dists :
            (q # p /\ q \notin WHITELIST /\ q # data.target /\ d \in dists[q]) =>
              /\ d \notin Get(data.safe_to_removed, p, {})
              /\ q \in Get(Get(data.package_depenencies_required_by, p, EmptyMap), d, {})

\* the distributions that uninstalling `names` removes
Removed(names) == {get_distribution(n) : n \in names} \ {NotFound}

\* C3: whenever a set of names is handed to the uninstall command, no
\* installed package that survives it declares one of the removed
\* distributions, the target aside.
C3_NoSurvivingReferent ==
    \A k \in DOMAIN executed :
        LET gone   == Removed(executed[k].names)
            target == get_distribution(args[executed[k].at])
        IN  \A q \in Installed \ gone :
              \A e \in dists[q] :
                does_pkg_exists(e) => get_distribution(e) \notin gone \ {target}

\* C4: no protected package is in a safe_to_removed value, and none is in a
\* set handed to the uninstall command.
C4_ProtectedNeverProposed ==
    /\ \A n \in AllSafe(data) : get_distribution(n) \notin WHITELIST
    /\ \A k \in DOMAIN executed :
          \A n \in executed[k].names : get_distribution(n) \notin WHITELIST

\* C5: for a target that is installed, analyze_recursively ends by returning;
\* no exception ends it.
C5_ResolveReturns ==
    pc = "raised" => ~does_pkg_exists(args[argi])

\* C6: when the pass over this_requires_by is over, this_requires_by is what
\* it was before without the names found in a safe_to_removed value.
C6_CorrectivePass ==
    [][(pc = "corrective" /\ pc' # "corrective") =>
          data'.this_requires_by = data.this_requires_by \ AllSafe(data)]_vars

\* C7: analyze_recursively returns False exactly when, right after the
\* target was analyzed, safe_to_removed has no entry for the target or an
\* empty one; and after a False no other package is analyzed, the pass over
\* this_requires_by is not run and nothing is uninstalled for that target.
C7_ReturnValue ==
    /\ [][pc = "analyze_target" =>
            /\ (rv' = "False") <=>
                  (data.target \notin DOMAIN data'.safe_to_removed
                     \/ data'.safe_to_removed[data.target] = {})
            /\ (rv' = "False") => pc' \in {"construct", "exit"}]_vars
    /\ [](/\ \A r \in DOMAIN results :
               results[r].rv = FALSE =>
                 \A k \in DOMAIN executed : executed[k].at # results[r].at
           /\ rv = "False" =>
                 /\ data.analyzed_packages \subseteq {get_distribution(data.target)}
                 /\ todo = {}
                 /\ pc \in {"construct", "exit", "raised"})

\* False was returned for a target whose requirements are all installed and
\* not protected, because another package requires them
C7_Witness ==
    /\ rv = "False"
    /\ data.target \in data.analyzed_packages
    /\ dists[data.target] # {}
    /\ data.target \notin dists[data.target]
    /\ DOMAIN data.package_depenencies_required_by[data.target] = dists[data.target]

\* C8: when the invocation is over, every target that is installed and comes
\* after a target that is not has been analyzed.
C8_ErrorIsolation ==
    pc \in {"exit", "raised"} =>
      \A k \in DOMAIN args :
        ((\E j \in 1..(k - 1) : ~does_pkg_exists(args[j])) /\ does_pkg_exists(args[k]))
          => \E r \in DOMAIN results : results[r].at = k

\* the target and what the analysis of the target left safe to remove
TwoLevels == {data.target} \cup Get(data.safe_to_removed, data.target, {})

\* C9, as stated: the analyzed packages, the keys of safe_to_removed and the
\* keys of package_depenencies_required_by are among the target and the
\* names in safe_to_removed[target].
C9_TwoLevelsLiteral ==
    /\ data.analyzed_packages \subseteq TwoLevels
    /\ DOMAIN data.safe_to_removed \subseteq TwoLevels
    /\ DOMAIN data.package_depenencies_required_by \subseteq TwoLevels

\* the same two levels, each name resolved to the name of its distribution
TwoLevelsResolved ==
    {get_distribution(data.target)} \cup
    {get_distribution(n) :
        n \in Get(data.safe_to_removed, get_distribution(data.target), {})}

\* C9, amended: the analyzed packages and the keys of both maps are among
\* the distributions that the target and the names in the target's
\* safe_to_removed entry resolve to.
C9_TwoLevelsResolved ==
    /\ data.analyzed_packages \subseteq TwoLevelsResolved
    /\ DOMAIN data.safe_to_removed \subseteq TwoLevelsResolved
    /\ DOMAIN data.package_depenencies_required_by \subseteq TwoLevelsResolved

\* the analysis is over and a package two levels below the target, safe to
\* remove for its parent, was not analyzed
C9_Witness ==
    /\ pc = "confirm"
    /\ \E t \in ToRemoved(data) :
         \E g \in Get(data.safe_to_removed, ResolvedName(t), {}) :
            get_distribution(g) \notin data.analyzed_packages

====
